---- MODULE Spec2Model ----
(***************************************************************************)
(* The dual-mode Recorder controller (session state machine, recording     *)
(* buffer, tick scheduling) of the Doodle Hoops recorder, as a state       *)
(* machine.  One action per event-loop task: a task runs a handler and all *)
(* the promise continuations (microtasks) it makes runnable, up to the     *)
(* next point where the code waits for an external event (timer, remote    *)
(* classifier response, MediaRecorder stop event, display-media prompt).   *)
(***************************************************************************)
EXTENDS Integers, Sequences, FiniteSets, Bags, TLC

\* ---------------------------------------------------------------- constants
TARGET_SCORE == 45
BASE_INTERVAL_MS == 4000
LOCAL_INTERVAL_MS == 1000
ERROR_BACKOFF_MS == 10000
\* the literal first-tick delay startCapture uses in remote mode
FIRST_INTERVAL_MS == 1000

\* ------------------------------------------------------------------- bounds
\* remote calls dispatched and not yet settled at one time
MaxInflight == 2
\* MediaRecorder objects alive at one time (referenced by mediaRecorderRef, or
\* dropped by it with a stop event still pending)
MaxRecorders == 2
\* AttemptRecords in the session history, emitted or being finalized
MaxHistory == 2
\* timer handles that can be armed at one time
MaxTimers == 2

\* ------------------------------------------------------------------- values
\* score: number | null; null is modelled by a value no score takes
Null == -1
\* a field the parsed response lacks reads as undefined: falsy as isGameOver,
\* and as score neither null nor >= any number
Undefined == -2
\* scores the remote classifier reports on an end screen
Scores == {TARGET_SCORE - 1, TARGET_SCORE}
\* what `JSON.parse(text) as AnalysisResult` gives for the response `{}`: the
\* cast checks nothing, so the object is returned with its fields missing
Malformed == [isGameOver |-> FALSE, score |-> Undefined]
\* the AnalysisResult values analyzeGameFrame resolves with: score is 0 when no
\* end screen is visible
Results == {[isGameOver |-> FALSE, score |-> 0]}
             \cup {[isGameOver |-> TRUE, score |-> s] : s \in Scores}
             \cup {Malformed}
\* the two analyzeGameFrame implementations of the repository: one rejects on
\* a failed call, the other catches the failure and resolves with a negative
\* result
ServiceVariants == {"throws", "catches"}

RecorderState == {"IDLE", "MONITORING", "RECORDING", "ANALYZING", "WAITING_FOR_START"}
DetectionMode == {"GEMINI", "LOCAL"}

\* no onstop handler attached to a MediaRecorder
NoHandler == [set |-> FALSE, score |-> Null, stale |-> FALSE]

\* mediaRecorderRef.current = null
NoRecorder == [state |-> "none", stopPending |-> FALSE, onstop |-> NoHandler,
               finalized |-> 0]

\* new MediaRecorder(...) after recorder.start(1000)
NewRecorder == [state |-> "recording", stopPending |-> FALSE,
                onstop |-> NoHandler, finalized |-> 0]

VARIABLES
  stateRef,          \* stateRef.current (and its mirror recorderState)
  streamOn,          \* streamRef.current / stream is a live MediaStream
  mode,              \* the mode state of the component (mode switcher)
  capture,           \* startCapture awaiting getDisplayMedia: "none" or the
                     \* mode its closure captured
  isRateLimited,
  error,             \* the user-visible error message
  timers,            \* armed setTimeout handles: [id, mode, delay]
  timeoutRef,        \* timeoutRef.current (0 = null)
  mediaRecorderRef,  \* the MediaRecorder mediaRecorderRef.current refers to:
                     \* state, stop event pending, onstop handler (the score
                     \* of the handleGameOver call it resumes; stale:
                     \* stopSession ran since), finalized: handleGameOver
                     \* calls that stopped it
  orphans,           \* the bag of MediaRecorders mediaRecorderRef has dropped
                     \* that still record or have a stop event pending
  chunksRef,         \* chunksRef.current: "empty", or "data" when it holds
                     \* at least one chunk
  inflight,          \* analyzeGameFrame calls dispatched and not yet settled:
                     \* [mode of the closure, stale: stopSession ran since]
  history,           \* the logs list of App, newest first
  service,           \* the analyzeGameFrame implementation the build links
  lastOp,            \* the handler that ran last: [op, from, over, score]
  component,         \* the Recorder component the build mounts
  frame,             \* the canvas after drawImage: the scan strip's stripes
                     \* and what reading its pixels does
  localResult,       \* what analyzeGameFrameLocally returned last
  localCalls,        \* the calls of analyzeGameFrameLocally made so far
  stream,            \* single-mode Recorder: the stream state, 0 = null,
                     \* else the MediaStream of that session
  streams,           \* the MediaStreams getDisplayMedia has granted
  isProcessing,      \* single-mode Recorder: the isProcessing state
  performAnalysis,   \* the callback useCallback memoizes: the isProcessing
                     \* and the stream of the render that created it (its
                     \* handleGameOver is of the same render)
  intervalRef,       \* intervalRef.current (0 = null)
  intervals,         \* the live setInterval handles: [id, pa, guarded]
  recorders,         \* the MediaRecorders constructed, in order; in the
                     \* single-mode Recorder mediaRecorderRef is an index
                     \* into it (0 = null)
  pendingCalls,      \* single-mode analyzeGameFrame calls not yet settled
  cooldowns          \* the armed 5 s timeouts of handleGameOver

\* the inputs and outputs of the functions applied on their own
fnVars == <<component, frame, localResult, localCalls>>

\* the state of the single-mode Recorder the dual-mode one does not have
singleVars == <<stream, streams, isProcessing, performAnalysis, intervalRef,
                intervals, recorders, pendingCalls, cooldowns>>

vars == <<stateRef, streamOn, mode, capture, isRateLimited, error,
          timers, timeoutRef, mediaRecorderRef, orphans, chunksRef,
          inflight, history, service, lastOp, fnVars, singleVars>>

\* the fields performAnalysis and handleGameOver read and write
Ctl == [stateRef |-> stateRef, mediaRecorderRef |-> mediaRecorderRef,
        orphans |-> orphans, chunksRef |-> chunksRef, history |-> history]

SetCtl(c) ==
  /\ stateRef' = c.stateRef
  /\ mediaRecorderRef' = c.mediaRecorderRef
  /\ orphans' = c.orphans
  /\ chunksRef' = c.chunksRef
  /\ history' = c.history

Op(name, over) ==
  [op |-> name, from |-> stateRef, over |-> over, score |-> Null]

\* a handler no property below singles out
Other == [op |-> "other", from |-> "IDLE", over |-> FALSE, score |-> Null]

\* --------------------------------------------------------------- helpers
updateState(c, newState) == [c EXCEPT !.stateRef = newState]

\* mediaRecorderRef.current?.state === 'recording'
IsRecording(c) == c.mediaRecorderRef.state = "recording"

\* !mediaRecorderRef.current || mediaRecorderRef.current.state === 'inactive'
IsInactive(c) == c.mediaRecorderRef.state \in {"none", "inactive"}

Interval(m) == IF m = "LOCAL" THEN LOCAL_INTERVAL_MS ELSE BASE_INTERVAL_MS

FirstInterval(m) == IF m = "LOCAL" THEN LOCAL_INTERVAL_MS ELSE FIRST_INTERVAL_MS

\* the timers left armed after clearTimeout(timeoutRef.current)
ClearTimeout(ts, ref) == {t \in ts : t.id # ref}

FreshTimerId(ts) ==
  CHOOSE i \in 1..MaxTimers :
    /\ \A t \in ts : t.id # i
    /\ \A j \in 1..MaxTimers : (\A t \in ts : t.id # j) => i <= j

\* scheduleNextAnalysis without its clearTimeout
scheduleNextAnalysisNoClear(ts, ref, m, delay) ==
  LET id == FreshTimerId(ts)
  IN [timers |-> ts \cup {[id |-> id, mode |-> m, delay |-> delay]},
      timeoutRef |-> id]

\* scheduleNextAnalysis(delay) of the closure whose mode is m
scheduleNextAnalysis(ts, ref, m, delay) ==
  LET cleared == ClearTimeout(ts, ref)
      id == FreshTimerId(cleared)
  IN [timers |-> cleared \cup {[id |-> id, mode |-> m, delay |-> delay]},
      timeoutRef |-> id]

SetTimers(s) == timers' = s.timers /\ timeoutRef' = s.timeoutRef

\* a MediaRecorder that outlives its reference: it still records, or its
\* stop event is still to come
Lingers(r) == r.stopPending \/ r.state = "recording"

\* the dropped recorders once mediaRecorderRef.current is overwritten
Dropped(c) ==
  IF Lingers(c.mediaRecorderRef)
  THEN c.orphans (+) SetToBag({c.mediaRecorderRef})
  ELSE c.orphans

\* startMediaRecorder without its updateState(RECORDING)
startMediaRecorderNoUpdate(c, on) ==
  IF ~on \/ IsRecording(c)
  THEN c
  ELSE [c EXCEPT
          !.chunksRef = "empty",
          !.orphans = Dropped(c),
          !.mediaRecorderRef = NewRecorder]

startMediaRecorder(c, on) ==
  IF ~on \/ IsRecording(c)
  THEN c
  ELSE [c EXCEPT
          !.chunksRef = "empty",
          !.orphans = Dropped(c),
          !.mediaRecorderRef = NewRecorder,
          !.stateRef = "RECORDING"]

\* RetentionStatus with the threshold compared strictly
RetentionStatusStrict(score) ==
  IF score = Null THEN "manual-review"
  ELSE IF score > TARGET_SCORE THEN "saved"
  ELSE "discarded"

RetentionStatus(score) ==
  IF score = Null THEN "manual-review"
  ELSE IF score >= TARGET_SCORE THEN "saved"
  ELSE "discarded"

\* handleLogEntry placing the record after the earlier ones
handleLogEntryAtEnd(prev, entry) == Append(prev, entry)

\* App.handleLogEntry: setLogs(prev => [entry, ...prev])
handleLogEntry(prev, entry) == <<entry>> \o prev

\* handleGameOver after `await stopMediaRecorder()`: blob is "empty" or "data",
\* as the chunk list it was built from
handleGameOverResume(c, score, blob) ==
  LET status == RetentionStatus(score)
      record == [score |-> score, status |-> status,
                 videoBlob |-> IF status # "discarded" THEN blob ELSE "undefined"]
  IN updateState([c EXCEPT !.history = handleLogEntry(@, record)],
                 "WAITING_FOR_START")

\* handleGameOver up to `await stopMediaRecorder()`; when the recorder is
\* missing or inactive the promise is already resolved and the rest runs in
\* the same task
handleGameOver(c, score) ==
  LET c0 == updateState(c, "ANALYZING")
      c1 == IF c0.mediaRecorderRef = NoRecorder THEN c0
            ELSE [c0 EXCEPT !.mediaRecorderRef.finalized = @ + 1]
  IN IF IsInactive(c1)
     THEN handleGameOverResume(c1, score, "empty")
     ELSE [c1 EXCEPT !.mediaRecorderRef =
             [@ EXCEPT !.state = "inactive", !.stopPending = TRUE,
                       !.onstop = [set |-> TRUE, score |-> score,
                                   stale |-> FALSE]]]

\* AnalysisSkipped without the ANALYZING test
AnalysisNeverSkipped(s) == FALSE

\* performAnalysis returns before sampling a frame
AnalysisSkipped(s) == s = "ANALYZING"

\* performAnalysis from `const currentState = stateRef.current` on
performAnalysisResume(c, on, over, score) ==
  IF c.stateRef = "MONITORING"
  THEN IF over THEN updateState(c, "WAITING_FOR_START")
       ELSE startMediaRecorder(c, on)
  ELSE IF c.stateRef = "RECORDING"
  THEN IF over THEN handleGameOver(c, score) ELSE c
  ELSE IF c.stateRef = "WAITING_FOR_START"
  THEN IF ~over THEN startMediaRecorder(c, on) ELSE c
  ELSE c

\* the recorders alive: the referenced one and the dropped ones
Alive(ref, orph) ==
  IF ref = NoRecorder THEN orph ELSE orph (+) SetToBag({ref})

\* handleGameOver calls whose record is not yet emitted
PendingFinalizations(ref, orph) ==
  BagCardinality([r \in {x \in BagToSet(Alive(ref, orph)) : x.onstop.set}
                    |-> CopiesIn(r, Alive(ref, orph))])

\* the bounds on the recorders alive and on the history: a result that would
\* create a recorder needs room for it, one that would start a finalization
\* needs room in the history
CanApply(over) ==
  /\ (/\ stateRef \in {"MONITORING", "WAITING_FOR_START"}
      /\ ~over /\ streamOn /\ ~IsRecording(Ctl))
       => BagCardinality(Dropped(Ctl)) < MaxRecorders
  /\ (stateRef = "RECORDING" /\ over)
       => Len(history) + PendingFinalizations(mediaRecorderRef, orphans)
            < MaxHistory

RemoveAt(s, i) == SubSeq(s, 1, i - 1) \o SubSeq(s, i + 1, Len(s))

\* ------------------------------------------------- the local classifier
\* the canvas performAnalysis samples into
CANVAS_WIDTH == 640
CANVAS_HEIGHT == 360

COLOR_TOLERANCE == 70
\* isWhiteish: every channel above this
WHITE_MIN == 220
\* scanWidth
SCAN_WIDTH == 20

TARGET_BLUE == [r |-> 66, g |-> 133, b |-> 244]
TARGET_GREEN == [r |-> 52, g |-> 168, b |-> 83]
WHITE == [r |-> 255, g |-> 255, b |-> 255]
BLACK == [r |-> 0, g |-> 0, b |-> 0]

Min(a, b) == IF a < b THEN a ELSE b
Max(a, b) == IF a > b THEN a ELSE b

\* Math.sqrt(dr^2 + dg^2 + db^2) < COLOR_TOLERANCE, compared squared
colorMatch(p, target) ==
  (p.r - target.r) * (p.r - target.r)
    + (p.g - target.g) * (p.g - target.g)
    + (p.b - target.b) * (p.b - target.b)
    < COLOR_TOLERANCE * COLOR_TOLERANCE

isWhiteish(p) == p.r > WHITE_MIN /\ p.g > WHITE_MIN /\ p.b > WHITE_MIN

\* a frame is black but for its stripes: a stripe fills the canvas rows
\* top .. top + rows - 1 in the columns left .. left + width - 1 with one
\* colour; the stripes of a frame share no row
NoStripe == [top |-> 0, rows |-> 0, left |-> 0, width |-> 0, colour |-> BLACK]

\* the stripe that covers row y
StripeAt(f, y) ==
  IF \E i \in 1..Len(f.stripes) :
       f.stripes[i].top <= y /\ y < f.stripes[i].top + f.stripes[i].rows
  THEN f.stripes[CHOOSE i \in 1..Len(f.stripes) :
         f.stripes[i].top <= y /\ y < f.stripes[i].top + f.stripes[i].rows]
  ELSE NoStripe

\* how many of the cells lo2 .. lo2 + n2 - 1 lie in lo1 .. lo1 + n1 - 1
Overlap(lo1, n1, lo2, n2) == Max(0, Min(lo1 + n1, lo2 + n2) - Max(lo1, lo2))

\* the three tests of the inner loop, by the counter they feed
Matches(p, cue) ==
  IF cue = "blue" THEN colorMatch(p, TARGET_BLUE)
  ELSE IF cue = "green" THEN colorMatch(p, TARGET_GREEN)
  ELSE isWhiteish(p)

\* the inner loop over x: the pixels of row y of the strip that the test of
\* the cue accepts
RowCount(f, y, startX, cue) ==
  LET s == StripeAt(f, y)
      inStrip == Overlap(s.left, s.width, startX, SCAN_WIDTH)
  IN (IF Matches(s.colour, cue) THEN inStrip ELSE 0)
       + (IF Matches(BLACK, cue) THEN SCAN_WIDTH - inStrip ELSE 0)

\* a threshold that 40% of the strip already meets
OverThresholdInclusive(count) == count * 10 >= SCAN_WIDTH * 4

\* rowCount > threshold, threshold = scanWidth * 0.4
OverThreshold(count) == count * 10 > SCAN_WIDTH * 4

\* rows > height * 0.02
EnoughRows(rows, height) == rows * 100 > height * 2

\* the decision without the ribbon requirement
IsGameOverAnyCue(hasRibbon, hasButton, hasUrlBox) == hasButton \/ hasUrlBox

\* isGameOver = hasRibbon && (hasButton || hasUrlBox)
IsGameOver(hasRibbon, hasButton, hasUrlBox) ==
  hasRibbon /\ (hasButton \/ hasUrlBox)

\* a confidence that is never 0
ConfidenceCertain(isGameOver) == 1

\* confidence: isGameOver ? 1.0 : 0.0
Confidence(isGameOver) == IF isGameOver THEN 1 ELSE 0

\* what the catch block returns
LocalFailure == [isGameOver |-> FALSE, score |-> Null, confidence |-> 0]

\* the test on yPercent = y / height that guards each row counter
InBand(y, height, cue) ==
  IF cue = "blue" THEN y * 100 < 40 * height
  ELSE IF cue = "green" THEN y * 100 > 30 * height /\ y * 100 < 70 * height
  ELSE y * 100 > 50 * height /\ y * 100 < 85 * height

\* blueRows, greenRows, whiteRows after the loop over the rows
RowTally(f, width, height, cue) ==
  LET centerX == width \div 2
      startX == Max(0, centerX - SCAN_WIDTH \div 2)
  IN Cardinality({y \in 0..(height - 1) :
       InBand(y, height, cue) /\ OverThreshold(RowCount(f, y, startX, cue))})

\* analyzeGameFrameLocally(ctx, width, height); f is the canvas ctx draws on.
\* ctx.getImageData throws unless the pixels can be read
analyzeGameFrameLocally(f, width, height) ==
  IF f.pixelAccess # "ok" THEN LocalFailure
  ELSE
    LET hasRibbon == EnoughRows(RowTally(f, width, height, "blue"), height)
        hasButton == EnoughRows(RowTally(f, width, height, "green"), height)
        hasUrlBox == EnoughRows(RowTally(f, width, height, "white"), height)
        over == IsGameOver(hasRibbon, hasButton, hasUrlBox)
    IN [isGameOver |-> over, score |-> Null, confidence |-> Confidence(over)]

\* canvas.toDataURL throws a SecurityError when the canvas is not
\* origin-clean, the condition under which getImageData throws one too
toDataURLThrows(f) == f.pixelAccess = "security-error"

\* what reading the pixels of the canvas does: it succeeds, it fails because
\* the canvas is not origin-clean, or getImageData alone fails
PixelAccess == {"ok", "security-error", "read-error"}

\* the stripes tried at one place of the strip: none, the three cue colours
\* over the full strip, and the cue expected there one row short, one pixel
\* narrow, shifted across the upper edge of its band, just outside and just
\* inside the colour tolerance
Stripes(top, edge, cue, miss, near) ==
  {NoStripe}
    \cup {[top |-> top, rows |-> 8, left |-> 300, width |-> 40, colour |-> c] :
            c \in {TARGET_BLUE, TARGET_GREEN, WHITE}}
    \cup {[top |-> top, rows |-> 7, left |-> 300, width |-> 40, colour |-> cue],
          [top |-> top, rows |-> 8, left |-> 322, width |-> 40, colour |-> cue],
          [top |-> top, rows |-> 8, left |-> 321, width |-> 40, colour |-> near],
          [top |-> edge, rows |-> 8, left |-> 300, width |-> 40, colour |-> cue],
          [top |-> top, rows |-> 8, left |-> 300, width |-> 40, colour |-> miss]}

\* a stripe of a cue colour across the lower edge of the cue's band
LowEdgeStripe(top, cue) ==
  [top |-> top, rows |-> 8, left |-> 300, width |-> 40, colour |-> cue]

Frames ==
  {[stripes |-> <<a, b, c>>, pixelAccess |-> pa] :
     a \in Stripes(50, 137, TARGET_BLUE,
                   [TARGET_BLUE EXCEPT !.b = @ - COLOR_TOLERANCE],
                   [TARGET_BLUE EXCEPT !.b = @ - COLOR_TOLERANCE + 1]),
     b \in Stripes(150, 245, TARGET_GREEN,
                   [TARGET_GREEN EXCEPT !.g = @ - COLOR_TOLERANCE],
                   [TARGET_GREEN EXCEPT !.g = @ - COLOR_TOLERANCE + 1])
             \cup {LowEdgeStripe(102, TARGET_GREEN)},
     c \in Stripes(262, 299, WHITE,
                   [WHITE EXCEPT !.r = WHITE_MIN],
                   [WHITE EXCEPT !.r = WHITE_MIN + 1])
             \cup {LowEdgeStripe(174, WHITE)},
     pa \in PixelAccess}

BlackFrame == [stripes |-> <<NoStripe, NoStripe, NoStripe>>, pixelAccess |-> "ok"]

\* no call of analyzeGameFrameLocally has returned yet
NoResult == [isGameOver |-> FALSE, score |-> Undefined, confidence |-> Undefined]

\* the Recorder components of the repository: the dual-mode one and the
\* remote-only one, whose threshold is its own
ComponentVariants == {"dual-mode", "remote-only"}
REMOTE_ONLY_TARGET_SCORE == 39

\* the record handleGameOver of the remote-only Recorder builds
AttemptRecordRemoteOnly(score, blob) ==
  LET isSuccess == score >= REMOTE_ONLY_TARGET_SCORE
  IN [score |-> score,
      status |-> IF isSuccess THEN "saved" ELSE "discarded",
      videoBlob |-> IF isSuccess THEN blob ELSE "undefined"]

\* the callback memoized by the first render: isProcessing false, stream null
MountClosure == [isProcessing |-> FALSE, stream |-> 0]

\* the single-mode state right after the mount
SingleMounted ==
  /\ stream = 0
  /\ streams = 0
  /\ isProcessing = FALSE
  /\ performAnalysis = MountClosure
  /\ intervalRef = 0
  /\ intervals = {}
  /\ recorders = <<>>
  /\ pendingCalls = <<>>
  /\ cooldowns = <<>>

\* ------------------------------------------------------------------ Init
Init ==
  /\ stateRef = "IDLE"
  /\ streamOn = FALSE
  /\ mode = "GEMINI"
  /\ capture = "none"
  /\ isRateLimited = FALSE
  /\ error = "none"
  /\ timers = {}
  /\ timeoutRef = 0
  /\ mediaRecorderRef = NoRecorder
  /\ orphans = EmptyBag
  /\ chunksRef = "empty"
  /\ inflight = <<>>
  /\ history = <<>>
  /\ service \in ServiceVariants
  /\ lastOp = [op |-> "init", from |-> "IDLE", over |-> FALSE, score |-> Null]
  /\ component = "dual-mode"
  /\ frame = BlackFrame
  /\ localResult = NoResult
  /\ localCalls = 0
  /\ SingleMounted

\* --------------------------------------------------------------- actions
\* the mode switcher buttons: onClick={() => !stream && setMode(m)}
SetMode(m) ==
  /\ ~streamOn
  /\ mode # m
  /\ mode' = m
  /\ lastOp' = Other
  /\ UNCHANGED <<stateRef, streamOn, capture, isRateLimited, error,
                 timers, timeoutRef, mediaRecorderRef, orphans, chunksRef,
                 inflight, history, service, fnVars, singleVars>>

\* "Select Game Tab": startCapture up to `await getDisplayMedia`
StartCapture ==
  /\ ~streamOn
  /\ capture = "none"
  /\ Len(inflight) < MaxInflight
  /\ capture' = mode
  /\ error' = "none"
  /\ lastOp' = Other
  /\ UNCHANGED <<stateRef, streamOn, mode, isRateLimited,
                 timers, timeoutRef, mediaRecorderRef, orphans, chunksRef,
                 inflight, history, service, fnVars, singleVars>>

\* getDisplayMedia resolves: the rest of startCapture's try block
CaptureGranted ==
  /\ capture # "none"
  /\ streamOn' = TRUE
  /\ stateRef' = "MONITORING"
  /\ SetTimers(scheduleNextAnalysis(timers, timeoutRef, capture,
                                    FirstInterval(capture)))
  /\ capture' = "none"
  /\ lastOp' = Op("granted", FALSE)
  /\ UNCHANGED <<mode, isRateLimited, error, mediaRecorderRef, orphans,
                 chunksRef, inflight, history, service, fnVars, singleVars>>

\* the message startCapture's catch block sets
CaptureError(notAllowed) ==
  IF notAllowed THEN "permission-denied" ELSE "capture-failed"

\* getDisplayMedia rejects: startCapture's catch block
CaptureDenied(notAllowed) ==
  /\ capture # "none"
  /\ capture' = "none"
  /\ error' = CaptureError(notAllowed)
  /\ lastOp' = Op("denied", FALSE)
  /\ UNCHANGED <<stateRef, streamOn, mode, isRateLimited,
                 timers, timeoutRef, mediaRecorderRef, orphans, chunksRef,
                 inflight, history, service, fnVars, singleVars>>

\* the remote calls in flight, marked as dispatched before a stop
RECURSIVE StaleCalls(_)
StaleCalls(calls) ==
  IF calls = <<>> THEN <<>>
  ELSE <<[Head(calls) EXCEPT !.stale = TRUE]>> \o StaleCalls(Tail(calls))

\* a pending finalization, marked as begun before a stop
MarkStale(r) == IF r.onstop.set THEN [r EXCEPT !.onstop.stale = TRUE] ELSE r

\* the body of stopSession
stopSession(name) ==
  /\ timers' = ClearTimeout(timers, timeoutRef)
  /\ mediaRecorderRef' =
       IF mediaRecorderRef # NoRecorder /\ mediaRecorderRef.state # "inactive"
       THEN MarkStale([mediaRecorderRef EXCEPT !.state = "inactive",
                                               !.stopPending = TRUE])
       ELSE MarkStale(mediaRecorderRef)
  /\ orphans' = BagOfAll(MarkStale, orphans)
  /\ inflight' = StaleCalls(inflight)
  /\ streamOn' = FALSE
  /\ stateRef' = "IDLE"
  /\ isRateLimited' = FALSE
  /\ lastOp' = Op(name, FALSE)
  /\ UNCHANGED <<mode, capture, error, timeoutRef, chunksRef, history,
                 service, fnVars, singleVars>>

\* "Stop Monitor" button
StopSession ==
  /\ streamOn
  /\ stopSession("stop")

\* the video track's onended handler
TrackEnded ==
  /\ streamOn
  /\ stopSession("ended")

\* timer t fires: runAnalysisLoop, and in local mode all of performAnalysis;
\* hidden is document.hidden as the handler reads it, over the local
\* classifier's isGameOver for the frame it samples
RunAnalysisLoop(t, hidden, over) ==
  /\ t \in timers
  /\ UNCHANGED <<service, fnVars, singleVars>>
  /\ LET fired == timers \ {t}
         interval == Interval(t.mode)
     IN
     IF ~streamOn
     THEN /\ ~over /\ ~hidden
          /\ timers' = fired
          /\ lastOp' = Op("tick-inactive", FALSE)
          /\ UNCHANGED <<stateRef, streamOn, mode, capture,
                         isRateLimited, error, timeoutRef, mediaRecorderRef,
                         orphans, chunksRef, inflight, history>>
     ELSE IF hidden
     THEN /\ ~over
          /\ SetTimers(scheduleNextAnalysis(fired, timeoutRef, t.mode, interval * 2))
          /\ lastOp' = Op("tick-hidden", FALSE)
          /\ UNCHANGED <<stateRef, streamOn, mode, capture,
                         isRateLimited, error, mediaRecorderRef, orphans,
                         chunksRef, inflight, history>>
     ELSE IF AnalysisSkipped(stateRef)
     THEN /\ ~over
          /\ isRateLimited' = FALSE
          /\ SetTimers(scheduleNextAnalysis(fired, timeoutRef, t.mode, interval))
          /\ lastOp' = Op("tick-skipped", FALSE)
          /\ UNCHANGED <<stateRef, streamOn, mode, capture, error,
                         mediaRecorderRef, orphans, chunksRef, inflight,
                         history>>
     ELSE IF t.mode = "GEMINI"
     THEN /\ ~over
          /\ inflight' = Append(inflight, [mode |-> t.mode, stale |-> FALSE])
          /\ timers' = fired
          /\ lastOp' = Op("tick-dispatch", FALSE)
          /\ UNCHANGED <<stateRef, streamOn, mode, capture,
                         isRateLimited, error, timeoutRef, mediaRecorderRef,
                         orphans, chunksRef, history>>
     ELSE /\ CanApply(over)
          /\ SetCtl(performAnalysisResume(Ctl, streamOn, over, Null))
          /\ isRateLimited' = FALSE
          /\ SetTimers(scheduleNextAnalysis(fired, timeoutRef, t.mode, interval))
          /\ lastOp' = Op("tick-result", over)
          /\ UNCHANGED <<streamOn, mode, capture, error, inflight>>

\* the remote call i resolves: the rest of performAnalysis and runAnalysisLoop
Respond(i, res) ==
  /\ i \in 1..Len(inflight)
  /\ CanApply(res.isGameOver)
  /\ inflight' = RemoveAt(inflight, i)
  /\ SetCtl(performAnalysisResume(Ctl, streamOn, res.isGameOver, res.score))
  /\ isRateLimited' = FALSE
  /\ SetTimers(scheduleNextAnalysis(timers, timeoutRef, inflight[i].mode,
                                    Interval(inflight[i].mode)))
  /\ lastOp' = [Op(IF inflight[i].stale THEN "late-result" ELSE "result",
                   res.isGameOver) EXCEPT !.score = res.score]
  /\ UNCHANGED <<streamOn, mode, capture, error, service, fnVars, singleVars>>

\* runAnalysisLoop after a failed call that stops the loop
FailNoRetry(i, quota) ==
  /\ i \in 1..Len(inflight)
  /\ inflight' = RemoveAt(inflight, i)
  /\ lastOp' = Op(IF quota THEN "quota-failure" ELSE "failure", FALSE)
  /\ UNCHANGED <<stateRef, streamOn, mode, capture, isRateLimited, error,
                 timers, timeoutRef, mediaRecorderRef, orphans, chunksRef,
                 history, service, fnVars, singleVars>>

\* the remote call i fails (transport error, quota error, empty or
\* unparsable response).  The throwing analyzeGameFrame rejects and
\* runAnalysisLoop's catch block runs; the catching one resolves with
\* {isGameOver: false, score: 0, confidence: 0} and the rest of
\* performAnalysis and runAnalysisLoop runs as for any result
Fail(i, quota) ==
  /\ i \in 1..Len(inflight)
  /\ inflight' = RemoveAt(inflight, i)
  /\ IF service = "catches"
     THEN /\ CanApply(FALSE)
          /\ SetCtl(performAnalysisResume(Ctl, streamOn, FALSE, 0))
          /\ isRateLimited' = FALSE
          /\ SetTimers(scheduleNextAnalysis(timers, timeoutRef, inflight[i].mode,
                                            Interval(inflight[i].mode)))
     ELSE /\ IF quota /\ inflight[i].mode = "GEMINI"
             THEN /\ isRateLimited' = TRUE
                  /\ SetTimers(scheduleNextAnalysis(timers, timeoutRef,
                                                    inflight[i].mode,
                                                    ERROR_BACKOFF_MS))
             ELSE /\ isRateLimited' = isRateLimited
                  /\ SetTimers(scheduleNextAnalysis(timers, timeoutRef,
                                                    inflight[i].mode,
                                                    Interval(inflight[i].mode)))
          /\ UNCHANGED <<stateRef, mediaRecorderRef, orphans, chunksRef,
                         history>>
  /\ lastOp' = Op(IF quota THEN "quota-failure" ELSE "failure", FALSE)
  /\ UNCHANGED <<streamOn, mode, capture, error, service, fnVars, singleVars>>

\* a recording MediaRecorder delivers a non-empty timeslice chunk
\* (ondataavailable): every recorder pushes to the one chunksRef
DataAvailable ==
  /\ \E r \in BagToSet(Alive(mediaRecorderRef, orphans)) : r.state = "recording"
  /\ chunksRef' = "data"
  /\ lastOp' = Other
  /\ UNCHANGED <<stateRef, streamOn, mode, capture, isRateLimited,
                 error, timers, timeoutRef, mediaRecorderRef, orphans,
                 inflight, history, service, fnVars, singleVars>>

\* the stop of recorder r completes (dropped: r is one of the orphans, else
\* the referenced recorder): its last dataavailable (data: whether the chunk
\* is non-empty), then its stop event, whose onstop handler resolves the
\* promise handleGameOver awaits
RecorderStopped(dropped, r, data) ==
  /\ IF dropped THEN BagIn(r, orphans) ELSE r = mediaRecorderRef
  /\ r.stopPending
  /\ LET chunks == IF data THEN "data" ELSE chunksRef
         h == r.onstop
         c1 == IF dropped
               THEN [Ctl EXCEPT !.orphans = @ (-) SetToBag({r})]
               ELSE [Ctl EXCEPT !.mediaRecorderRef =
                       [@ EXCEPT !.stopPending = FALSE, !.onstop = NoHandler]]
     IN IF h.set
        THEN /\ SetCtl(handleGameOverResume([c1 EXCEPT !.chunksRef = "empty"],
                                            h.score, chunks))
             /\ lastOp' = Op(IF h.stale THEN "late-finalize" ELSE "finalize",
                             FALSE)
        ELSE /\ SetCtl([c1 EXCEPT !.chunksRef = chunks])
             /\ lastOp' = Other
  /\ UNCHANGED <<streamOn, mode, capture, isRateLimited, error,
                 timers, timeoutRef, inflight, service, fnVars, singleVars>>

Next ==
  \/ \E m \in DetectionMode : SetMode(m)
  \/ StartCapture
  \/ CaptureGranted
  \/ \E notAllowed \in BOOLEAN : CaptureDenied(notAllowed)
  \/ StopSession
  \/ TrackEnded
  \/ \E t \in timers, hidden \in BOOLEAN, over \in BOOLEAN :
       RunAnalysisLoop(t, hidden, over)
  \/ \E i \in 1..Len(inflight), res \in Results : Respond(i, res)
  \/ \E i \in 1..Len(inflight), quota \in BOOLEAN : Fail(i, quota)
  \/ DataAvailable
  \/ \E data \in BOOLEAN : RecorderStopped(FALSE, mediaRecorderRef, data)
  \/ \E r \in BagToSet(orphans), data \in BOOLEAN :
       RecorderStopped(TRUE, r, data)

Spec == Init /\ [][Next]_vars

\* ------------------------------------------- the functions on their own
\* the calls of analyzeGameFrameLocally followed on one frame
MaxCalls == 2

\* the scores around the thresholds of the two components
FnScores == {REMOTE_ONLY_TARGET_SCORE - 1, REMOTE_ONLY_TARGET_SCORE,
             TARGET_SCORE - 1, TARGET_SCORE}

\* a recorder that stopped by itself (an encoder error, or the tracks of the
\* stream ended): inactive, no stop event pending, no onstop handler
StoppedRecorder == [NewRecorder EXCEPT !.state = "inactive"]

\* a session in local mode right after the attach, its canvas showing one of
\* the frames
LocalSessionInit ==
  /\ stateRef = "MONITORING"
  /\ mode = "LOCAL"
  /\ timers = {[id |-> 1, mode |-> "LOCAL", delay |-> FirstInterval("LOCAL")]}
  /\ mediaRecorderRef = NoRecorder
  /\ chunksRef = "empty"
  /\ inflight = <<>>
  /\ service = "throws"
  /\ component = "dual-mode"
  /\ frame \in Frames

\* a session in remote mode whose call is in flight, with the recorder
\* recording, stopped by itself or never created
RemoteSessionInit ==
  /\ stateRef \in {"MONITORING", "RECORDING", "WAITING_FOR_START"}
  /\ mode = "GEMINI"
  /\ timers = {}
  /\ mediaRecorderRef \in {NoRecorder, StoppedRecorder, NewRecorder}
  /\ chunksRef \in {"empty", "data"}
  /\ mediaRecorderRef = NoRecorder => chunksRef = "empty"
  /\ stateRef = "MONITORING" => mediaRecorderRef = NoRecorder
  /\ inflight = <<[mode |-> "GEMINI", stale |-> FALSE]>>
  /\ service \in ServiceVariants
  /\ component = "dual-mode"
  /\ frame = BlackFrame

\* the remote-only Recorder while it records
RemoteOnlyInit ==
  /\ stateRef = "RECORDING"
  /\ mode = "GEMINI"
  /\ timers = {}
  /\ mediaRecorderRef = NewRecorder
  /\ chunksRef \in {"empty", "data"}
  /\ inflight = <<>>
  /\ service = "throws"
  /\ component = "remote-only"
  /\ frame = BlackFrame

FnInit ==
  /\ streamOn = TRUE
  /\ capture = "none"
  /\ isRateLimited = FALSE
  /\ error = "none"
  /\ timeoutRef = 1
  /\ orphans = EmptyBag
  /\ history = <<>>
  /\ lastOp = [op |-> "init", from |-> "IDLE", over |-> FALSE, score |-> Null]
  /\ localResult = NoResult
  /\ localCalls = 0
  /\ SingleMounted
  /\ \/ LocalSessionInit
     \/ RemoteSessionInit
     \/ RemoteOnlyInit

\* a call whose result alternates with the number of calls made before
AnalyzeFrameCounting ==
  /\ localCalls < MaxCalls
  /\ localResult' =
       LET res == analyzeGameFrameLocally(frame, CANVAS_WIDTH, CANVAS_HEIGHT)
       IN IF localCalls % 2 = 0 THEN res
          ELSE [res EXCEPT !.isGameOver = ~@]
  /\ localCalls' = localCalls + 1
  /\ lastOp' = Op("analyze", FALSE)
  /\ UNCHANGED <<stateRef, streamOn, mode, capture, isRateLimited, error,
                 timers, timeoutRef, mediaRecorderRef, orphans, chunksRef,
                 inflight, history, service, component, frame, singleVars>>

\* analyzeGameFrameLocally called on the canvas
AnalyzeFrame ==
  /\ localCalls < MaxCalls
  /\ localResult' = analyzeGameFrameLocally(frame, CANVAS_WIDTH, CANVAS_HEIGHT)
  /\ localCalls' = localCalls + 1
  /\ lastOp' = Op("analyze", FALSE)
  /\ UNCHANGED <<stateRef, streamOn, mode, capture, isRateLimited, error,
                 timers, timeoutRef, mediaRecorderRef, orphans, chunksRef,
                 inflight, history, service, component, frame, singleVars>>

\* timer t of a local-mode closure fires while the document is visible:
\* runAnalysisLoop and all of performAnalysis, the classifier applied to the
\* canvas
LocalTick(t) ==
  /\ t \in timers
  /\ t.mode = "LOCAL"
  /\ streamOn
  /\ component = "dual-mode"
  /\ UNCHANGED <<streamOn, mode, capture, error, inflight, service,
                 component, frame, singleVars>>
  /\ LET fired == timers \ {t}
         interval == Interval(t.mode)
         result == analyzeGameFrameLocally(frame, CANVAS_WIDTH, CANVAS_HEIGHT)
     IN
     IF AnalysisSkipped(stateRef)
     THEN /\ isRateLimited' = FALSE
          /\ SetTimers(scheduleNextAnalysis(fired, timeoutRef, t.mode, interval))
          /\ lastOp' = Op("tick-skipped", FALSE)
          /\ UNCHANGED <<stateRef, mediaRecorderRef, orphans, chunksRef,
                         history, localResult, localCalls>>
     ELSE /\ localCalls < MaxCalls
          /\ localResult' = result
          /\ localCalls' = localCalls + 1
          /\ SetTimers(scheduleNextAnalysis(fired, timeoutRef, t.mode, interval))
          /\ IF toDataURLThrows(frame)
             THEN /\ lastOp' = Op("tick-failure", FALSE)
                  /\ UNCHANGED <<stateRef, isRateLimited, mediaRecorderRef,
                                 orphans, chunksRef, history>>
             ELSE /\ CanApply(result.isGameOver)
                  /\ SetCtl(performAnalysisResume(Ctl, streamOn,
                                                  result.isGameOver,
                                                  result.score))
                  /\ isRateLimited' = FALSE
                  /\ lastOp' = Op("tick-result", result.isGameOver)

\* handleGameOver of the remote-only Recorder, from the call to onLogEntry;
\* blob is what stopMediaRecorder resolved with
GameOverRemoteOnly(score, blob) ==
  /\ component = "remote-only"
  /\ stateRef = "RECORDING"
  /\ stateRef' = "ANALYZING"
  /\ mediaRecorderRef' = [mediaRecorderRef EXCEPT !.state = "inactive",
                                                  !.finalized = @ + 1]
  /\ chunksRef' = "empty"
  /\ history' = handleLogEntry(history, AttemptRecordRemoteOnly(score, blob))
  /\ lastOp' = [Op("game-over", TRUE) EXCEPT !.score = score]
  /\ UNCHANGED <<streamOn, mode, capture, isRateLimited, error, timers,
                 timeoutRef, orphans, inflight, service, fnVars, singleVars>>

FnNext ==
  \/ AnalyzeFrame
  \/ \E t \in timers : LocalTick(t)
  \/ \E i \in 1..Len(inflight), res \in Results :
       component = "dual-mode" /\ Respond(i, res)
  \/ \E data \in BOOLEAN : RecorderStopped(FALSE, mediaRecorderRef, data)
  \/ \E score \in FnScores, blob \in {"empty", "data"} :
       GameOverRemoteOnly(score, blob)

FnSpec == FnInit /\ [][FnNext]_vars

\* ------------------------------------------- the single-mode Recorder
MaxSessions == 2
ID_LENGTH == 9

SingleScores == {REMOTE_ONLY_TARGET_SCORE - 1, REMOTE_ONLY_TARGET_SCORE}

\* what analyzeGameFrame settles with: a rejection, or a result
SingleResults ==
  {[failed |-> TRUE, isGameOver |-> FALSE, score |-> 0],
   [failed |-> FALSE, isGameOver |-> FALSE, score |-> 0]}
    \cup {[failed |-> FALSE, isGameOver |-> TRUE, score |-> sc] :
            sc \in SingleScores}

\* values of Math.random(), each as the base-36 digits toString(36) prints
\* after "0.": the value 0 (no digit), and two values of ten digits that
\* differ in the tenth
RandomValues ==
  {<<>>, <<1, 2, 3, 4, 5, 6, 7, 8, 9, 10>>, <<1, 2, 3, 4, 5, 6, 7, 8, 9, 11>>}

\* Math.random().toString(36).substr(2, 9)
RecordId(random) == SubSeq(random, 1, Min(Len(random), ID_LENGTH))

\* the record handleGameOver builds: id, score, status, videoBlob
AttemptRecordSingle(random, score, blob) ==
  LET rcd == AttemptRecordRemoteOnly(score, blob)
  IN [id |-> RecordId(random), score |-> rcd.score, status |-> rcd.status,
      videoBlob |-> rcd.videoBlob]

\* recorder.onstop before stopMediaRecorder assigns it
NoHandlerSingle ==
  [set |-> FALSE, score |-> Null, closure |-> MountClosure, session |-> 0]

\* new MediaRecorder(...) after recorder.start(1000); finalized: the blobs
\* its onstop built, yielded: the records made from them
NewRecorderSingle ==
  [state |-> "recording", stopPending |-> FALSE, onstop |-> NoHandlerSingle,
   finalized |-> 0, yielded |-> 0]

\* a state change of the single-mode Recorder leaves the dual-mode state
SingleUnchanged ==
  UNCHANGED <<mode, capture, isRateLimited, timers, timeoutRef, orphans,
              inflight, service, fnVars>>

\* the fields startMediaRecorder reads and writes
RecCtl == [recorders |-> recorders, mediaRecorderRef |-> mediaRecorderRef,
           chunksRef |-> chunksRef, stateRef |-> stateRef]

SetRecCtl(c) ==
  /\ recorders' = c.recorders
  /\ mediaRecorderRef' = c.mediaRecorderRef
  /\ chunksRef' = c.chunksRef
  /\ stateRef' = c.stateRef

\* mediaRecorderRef.current?.state === 'recording'
IsRecordingSingle(c) ==
  /\ c.mediaRecorderRef # 0
  /\ c.recorders[c.mediaRecorderRef].state = "recording"

startMediaRecorderSingle(c) ==
  IF IsRecordingSingle(c) THEN c
  ELSE [c EXCEPT !.recorders = Append(@, NewRecorderSingle),
                 !.mediaRecorderRef = Len(c.recorders) + 1,
                 !.chunksRef = "empty",
                 !.stateRef = "RECORDING"]

\* window.clearInterval(intervalRef.current)
ClearInterval(ivs, ref) == {iv \in ivs : iv.id # ref}

\* the callback memoized after a render in which isProcessing is p
Memoize(p) ==
  IF p = isProcessing THEN performAnalysis
  ELSE [isProcessing |-> p, stream |-> stream]

SingleInit ==
  /\ stateRef = "IDLE"
  /\ streamOn = FALSE
  /\ mode = "GEMINI"
  /\ capture = "none"
  /\ isRateLimited = FALSE
  /\ error = "none"
  /\ timers = {}
  /\ timeoutRef = 0
  /\ mediaRecorderRef = 0
  /\ orphans = EmptyBag
  /\ chunksRef = "empty"
  /\ inflight = <<>>
  /\ history = <<>>
  /\ service = "throws"
  /\ lastOp = [op |-> "init", from |-> "IDLE", over |-> FALSE, score |-> Null]
  /\ component = "remote-only"
  /\ frame = BlackFrame
  /\ localResult = NoResult
  /\ localCalls = 0
  /\ SingleMounted

\* startCapture, getDisplayMedia granting a stream: startRecordingLoop
StartCaptureSingle ==
  /\ stream = 0
  /\ streams < MaxSessions
  /\ Len(recorders) < MaxRecorders
  /\ error' = "none"
  /\ streams' = streams + 1
  /\ stream' = streams + 1
  /\ streamOn' = TRUE
  /\ SetRecCtl(startMediaRecorderSingle([RecCtl EXCEPT
                                           !.stateRef = "MONITORING"]))
  /\ intervalRef' = intervalRef + 1
  /\ intervals' = intervals \cup {[id |-> intervalRef + 1,
                                   pa |-> performAnalysis,
                                   guarded |-> TRUE]}
  /\ lastOp' = Op("start", FALSE)
  /\ UNCHANGED <<isProcessing, performAnalysis, pendingCalls, cooldowns,
                 history>>
  /\ SingleUnchanged

\* startCapture, getDisplayMedia rejecting
CaptureDeniedSingle ==
  /\ stream = 0
  /\ error = "none"
  /\ error' = "Permission denied"
  /\ lastOp' = Op("capture-denied", FALSE)
  /\ UNCHANGED <<stateRef, streamOn, mediaRecorderRef, chunksRef, history,
                 singleVars>>
  /\ SingleUnchanged

\* stopSession: the Stop button, or the video track's onended
StopSessionSingle ==
  /\ stream # 0
  /\ intervals' = IF intervalRef # 0 THEN ClearInterval(intervals, intervalRef)
                  ELSE intervals
  /\ recorders' =
       IF mediaRecorderRef # 0 /\ recorders[mediaRecorderRef].state # "inactive"
       THEN [recorders EXCEPT ![mediaRecorderRef].state = "inactive",
                              ![mediaRecorderRef].stopPending = TRUE]
       ELSE recorders
  /\ stream' = 0
  /\ streamOn' = FALSE
  /\ stateRef' = "IDLE"
  /\ lastOp' = Op("stop", FALSE)
  /\ UNCHANGED <<error, mediaRecorderRef, chunksRef, history, streams,
                 isProcessing, performAnalysis, intervalRef, pendingCalls,
                 cooldowns>>
  /\ SingleUnchanged

\* interval iv fires: the callback of startRecordingLoop (guarded by
\* document.hidden) or performAnalysis itself, up to the await
TickSingle(iv, hidden) ==
  /\ iv \in intervals
  /\ IF iv.guarded /\ hidden
     THEN /\ lastOp' = Op("tick-hidden", FALSE)
          /\ UNCHANGED pendingCalls
     ELSE IF iv.pa.isProcessing
     THEN /\ lastOp' = Op("tick-skipped", FALSE)
          /\ UNCHANGED pendingCalls
     ELSE /\ Len(pendingCalls) < MaxInflight
          /\ pendingCalls' = Append(pendingCalls,
                                    [pa |-> iv.pa, session |-> stream])
          /\ lastOp' = Op("tick-dispatch", FALSE)
  /\ UNCHANGED <<stateRef, streamOn, error, mediaRecorderRef, chunksRef,
                 history, stream, streams, isProcessing, performAnalysis,
                 intervalRef, intervals, recorders, cooldowns>>
  /\ SingleUnchanged

\* handleGameOver up to `await stopMediaRecorder()`, called by the closure pa
\* with the recorder mediaRecorderRef refers to: onstop is replaced, stop()
\* ends a recording recorder and does nothing more to an inactive one
StopForGameOver(score, pa) ==
  LET handler == [set |-> TRUE, score |-> score, closure |-> pa,
                  session |-> stream]
      m == mediaRecorderRef
  IN IF recorders[m].state = "recording"
     THEN [recorders EXCEPT ![m].onstop = handler,
                            ![m].state = "inactive",
                            ![m].stopPending = TRUE]
     ELSE [recorders EXCEPT ![m].onstop = handler]

\* call i settles with res: the rest of performAnalysis, and handleGameOver
\* up to its await (to its end when there is no recorder)
RespondSingle(i, res, random) ==
  /\ i \in 1..Len(pendingCalls)
  /\ pendingCalls' = RemoveAt(pendingCalls, i)
  /\ IF res.failed \/ ~res.isGameOver
     THEN /\ lastOp' = Op(IF res.failed THEN "tick-failure" ELSE "tick-result",
                          FALSE)
          /\ UNCHANGED <<stateRef, history, isProcessing, performAnalysis,
                         intervals, recorders, cooldowns>>
     ELSE /\ intervals' = IF intervalRef # 0
                          THEN ClearInterval(intervals, intervalRef)
                          ELSE intervals
          /\ isProcessing' = TRUE
          /\ performAnalysis' = Memoize(TRUE)
          /\ stateRef' = "ANALYZING"
          /\ lastOp' = [Op("game-over", TRUE) EXCEPT !.score = res.score]
          /\ IF mediaRecorderRef = 0
             THEN /\ history' = handleLogEntry(history,
                       AttemptRecordSingle(random, res.score, "empty"))
                  /\ cooldowns' = Append(cooldowns,
                       [closure |-> pendingCalls[i].pa, session |-> stream])
                  /\ UNCHANGED recorders
             ELSE /\ recorders' = StopForGameOver(res.score,
                                                  pendingCalls[i].pa)
                  /\ UNCHANGED <<history, cooldowns>>
  /\ UNCHANGED <<streamOn, error, mediaRecorderRef, chunksRef, stream,
                 streams, intervalRef>>
  /\ SingleUnchanged

\* a recording recorder delivers a chunk
DataAvailableSingle(r) ==
  /\ r \in 1..Len(recorders)
  /\ recorders[r].state = "recording"
  /\ chunksRef = "empty"
  /\ chunksRef' = "data"
  /\ lastOp' = Op("data", FALSE)
  /\ UNCHANGED <<stateRef, streamOn, error, mediaRecorderRef, history,
                 singleVars>>
  /\ SingleUnchanged

\* the stop event of recorder r, after its last dataavailable (data: the
\* chunk is not empty): onstop, and the rest of the handleGameOver it resumes
RecorderStoppedSingle(r, data, random) ==
  /\ r \in 1..Len(recorders)
  /\ recorders[r].stopPending
  /\ LET chunks == IF data THEN "data" ELSE chunksRef
         h == recorders[r].onstop
     IN IF h.set
        THEN /\ chunksRef' = "empty"
             /\ history' = handleLogEntry(history,
                  AttemptRecordSingle(random, h.score, chunks))
             /\ recorders' = [recorders EXCEPT ![r].stopPending = FALSE,
                                               ![r].finalized = @ + 1,
                                               ![r].yielded = @ + 1]
             /\ cooldowns' = Append(cooldowns,
                  [closure |-> h.closure, session |-> h.session])
             /\ lastOp' = [Op("finalize", TRUE) EXCEPT !.score = h.score]
        ELSE /\ chunksRef' = chunks
             /\ recorders' = [recorders EXCEPT ![r].stopPending = FALSE]
             /\ lastOp' = Op("stop-event", FALSE)
             /\ UNCHANGED <<history, cooldowns>>
  /\ UNCHANGED <<stateRef, streamOn, error, mediaRecorderRef, stream, streams,
                 isProcessing, performAnalysis, intervalRef, intervals,
                 pendingCalls>>
  /\ SingleUnchanged

\* the 5 s timeout k of handleGameOver fires; its closure's stream is active
\* when it is the stream of the running session
CooldownSingle(k) ==
  /\ k \in 1..Len(cooldowns)
  /\ cooldowns' = RemoveAt(cooldowns, k)
  /\ LET cd == cooldowns[k]
         live == cd.session # 0 /\ cd.session = stream
     IN /\ lastOp' = Op(IF live THEN "cooldown-live" ELSE "cooldown-ended",
                        FALSE)
        /\ IF cd.closure.stream # 0 /\ cd.closure.stream = stream
           THEN /\ ~IsRecordingSingle(RecCtl) => Len(recorders) < MaxRecorders
                /\ SetRecCtl([startMediaRecorderSingle(RecCtl) EXCEPT
                                !.stateRef = "MONITORING"])
                /\ intervalRef' = intervalRef + 1
                /\ intervals' = intervals \cup {[id |-> intervalRef + 1,
                                                 pa |-> cd.closure,
                                                 guarded |-> FALSE]}
                /\ isProcessing' = FALSE
                /\ performAnalysis' = Memoize(FALSE)
           ELSE UNCHANGED <<stateRef, mediaRecorderRef, chunksRef, recorders,
                            intervalRef, intervals, isProcessing,
                            performAnalysis>>
  /\ UNCHANGED <<streamOn, error, history, stream, streams, pendingCalls>>
  /\ SingleUnchanged

SingleNext ==
  \/ StartCaptureSingle
  \/ CaptureDeniedSingle
  \/ StopSessionSingle
  \/ \E iv \in intervals, hidden \in BOOLEAN : TickSingle(iv, hidden)
  \/ \E i \in 1..Len(pendingCalls), res \in SingleResults,
        random \in RandomValues : RespondSingle(i, res, random)
  \/ \E r \in 1..Len(recorders) : DataAvailableSingle(r)
  \/ \E r \in 1..Len(recorders), data \in BOOLEAN, random \in RandomValues :
       RecorderStoppedSingle(r, data, random)
  \/ \E k \in 1..Len(cooldowns) : CooldownSingle(k)

SingleSpec == SingleInit /\ [][SingleNext]_vars


\* ------------------------------------------------------------ properties
\* handlers in which a timer fired
TickOps == {"tick-inactive", "tick-hidden", "tick-skipped", "tick-dispatch",
            "tick-result"}
\* handlers that applied a classification result
ResultOps == {"tick-result", "result", "late-result"}
\* handlers that resumed a handleGameOver call
FinalizeOps == {"finalize", "late-finalize"}

\* the number of MediaRecorders that are recording (open recording buffers)
Active(ref, orph) ==
  BagCardinality([r \in {x \in BagToSet(Alive(ref, orph)) : x.state = "recording"}
                    |-> CopiesIn(r, Alive(ref, orph))])

\* handleGameOver calls not yet resumed, now and after the step
Pending == PendingFinalizations(mediaRecorderRef, orphans)
PendingNext == PendingFinalizations(mediaRecorderRef', orphans')

\* C1: every AttemptRecord obeys the retention rule: an unknown score gives
\* manual-review with the buffer attached, a known score >= 45 gives saved
\* with the buffer attached, a known score < 45 gives discarded without a
\* buffer; 44 is discarded and 45 is saved.
C1_RetentionRule ==
  \A k \in 1..Len(history) :
    LET r == history[k] IN
    /\ r.score = Null
         => r.status = "manual-review" /\ r.videoBlob # "undefined"
    /\ (r.score # Null /\ r.score >= 45)
         => r.status = "saved" /\ r.videoBlob # "undefined"
    /\ (r.score # Null /\ r.score < 45)
         => r.status = "discarded" /\ r.videoBlob = "undefined"

C1_Witness ==
  \E k \in 1..Len(history) :
    /\ history[k].score = 45
    /\ history[k].status = "saved"
    /\ history[k].videoBlob = "data"

\* C2: a tick that fires while the state is ANALYZING dispatches no
\* classification and starts no finalization; no recorder is finalized by more
\* than one handleGameOver call; a finalization starts only by leaving
\* RECORDING for ANALYZING, and the history grows only when a pending
\* finalization resumes, by exactly one record.
C2_OneRecordPerCycle ==
  /\ [](\A r \in BagToSet(Alive(mediaRecorderRef, orphans)) : r.finalized <= 1)
  /\ [][/\ (stateRef = "ANALYZING" /\ lastOp'.op \in TickOps)
            => /\ inflight' = inflight
               /\ mediaRecorderRef' = mediaRecorderRef
               /\ orphans' = orphans
               /\ history' = history
               /\ stateRef' = "ANALYZING"
        /\ PendingNext > Pending
            => /\ stateRef = "RECORDING" /\ stateRef' = "ANALYZING"
               /\ PendingNext = Pending + 1
               /\ history' = history
        /\ history' # history
            => /\ lastOp'.op \in FinalizeOps
               /\ Len(history') = Len(history) + 1
               /\ PendingNext = Pending - 1
       ]_vars

C2_Witness ==
  /\ lastOp.op = "tick-skipped"
  /\ lastOp.from = "ANALYZING"
  /\ stateRef = "ANALYZING"
  /\ Pending = 1

\* C3: from the moment the state is ANALYZING until the record is emitted no
\* tick is scheduled: no timer is armed while the state is ANALYZING.
C3_NoTickWhileAnalyzing == stateRef = "ANALYZING" => timers = {}

\* C4: the result of a remote call that was in flight when stopSession ran
\* changes neither the state, nor any recorder, nor the history.
C4_LateResultIgnored ==
  [][lastOp'.op = "late-result"
       => /\ stateRef' = stateRef
          /\ mediaRecorderRef' = mediaRecorderRef
          /\ orphans' = orphans
          /\ history' = history]_vars

\* C5: a finalization that was pending when stopSession ran emits no record.
C5_NoRecordAfterStop ==
  [][lastOp'.op = "late-finalize" => history' = history]_vars

\* C6: once Idle, the state stays Idle until a startCapture succeeds.
C6_IdleUntilStart ==
  [][(stateRef = "IDLE" /\ stateRef' # "IDLE") => lastOp'.op = "granted"]_vars

\* C7: whenever the state is Idle no analysis timer is armed.
C7_IdleNoTimer == stateRef = "IDLE" => timers = {}

\* C8: at most one classification call is in flight, and when a result is
\* applied no later tick has been scheduled or dispatched.
C8_SingleFlight ==
  /\ [](Len(inflight) <= 1)
  /\ [][lastOp'.op \in {"result", "late-result"}
          => timers = {} /\ Len(inflight) = 1]_vars

\* C9: at most one recorder is recording; a recorder starts recording only in
\* a step that enters RECORDING, and stops recording only in a step that
\* leaves RECORDING or ANALYZING.
C9_BufferLifecycle ==
  /\ [](Active(mediaRecorderRef, orphans) <= 1)
  /\ [][/\ (Active(mediaRecorderRef', orphans') > Active(mediaRecorderRef, orphans))
            => stateRef # "RECORDING" /\ stateRef' = "RECORDING"
        /\ (Active(mediaRecorderRef', orphans') < Active(mediaRecorderRef, orphans))
            => stateRef \in {"RECORDING", "ANALYZING"} /\ stateRef' # stateRef
       ]_vars

\* C10: from MONITORING a result with isGameOver = false moves to RECORDING and
\* opens exactly one recorder; a result with isGameOver = true moves to
\* WAITING_FOR_START, opens no recorder and emits no record.
C10_FromMonitoring ==
  [][(lastOp'.op \in ResultOps /\ stateRef = "MONITORING")
       => IF lastOp'.over
          THEN /\ stateRef' = "WAITING_FOR_START"
               /\ mediaRecorderRef' = mediaRecorderRef
               /\ orphans' = orphans
               /\ history' = history
          ELSE /\ stateRef' = "RECORDING"
               /\ Active(mediaRecorderRef, orphans) = 0
               /\ Active(mediaRecorderRef', orphans') = 1
               /\ history' = history]_vars

C10_Witness ==
  /\ lastOp.op \in ResultOps
  /\ lastOp.from = "MONITORING"
  /\ ~lastOp.over
  /\ stateRef = "RECORDING"
  /\ Active(mediaRecorderRef, orphans) = 1

\* C11: from RECORDING a result with isGameOver = true moves to ANALYZING,
\* closes exactly one recorder and starts exactly one finalization, which
\* carries the score of that result; the state then leaves ANALYZING (other
\* than by a stop) only for WAITING_FOR_START, in the step that emits exactly
\* one record, whose score is the score of that result, and no other record is
\* emitted meanwhile.
C11_GameOverCycle ==
  [][/\ (lastOp'.op \in ResultOps /\ stateRef = "RECORDING" /\ lastOp'.over)
        => /\ stateRef' = "ANALYZING"
           /\ Active(mediaRecorderRef', orphans')
                = Active(mediaRecorderRef, orphans) - 1
           /\ PendingNext = Pending + 1
           /\ mediaRecorderRef'.onstop.set
           /\ mediaRecorderRef'.onstop.score = lastOp'.score
           /\ history' = history
     /\ (stateRef = "ANALYZING" /\ stateRef' \notin {"ANALYZING", "IDLE"})
        => /\ stateRef' = "WAITING_FOR_START"
           /\ mediaRecorderRef.onstop.set
           /\ Len(history') = Len(history) + 1
           /\ Tail(history') = history
           /\ Head(history').score = mediaRecorderRef.onstop.score
           /\ Active(mediaRecorderRef', orphans')
                = Active(mediaRecorderRef, orphans)
     /\ (stateRef = "ANALYZING" /\ stateRef' = "ANALYZING")
        => history' = history
    ]_vars

\* the step leaves the state, the recorders, the chunk list and the history
\* as they are
NoEffect ==
  /\ stateRef' = stateRef
  /\ mediaRecorderRef' = mediaRecorderRef
  /\ orphans' = orphans
  /\ chunksRef' = chunksRef
  /\ history' = history

\* C12: a result with isGameOver = false in RECORDING, and one with
\* isGameOver = true in WAITING_FOR_START, change neither the state, nor the
\* recorders, nor the chunk list, nor the history; a result with
\* isGameOver = false in WAITING_FOR_START moves to RECORDING and opens one
\* new recorder whose chunk list is empty.
C12_NoNewInformation ==
  [][lastOp'.op \in ResultOps
       => /\ (stateRef = "RECORDING" /\ ~lastOp'.over) => NoEffect
          /\ (stateRef = "WAITING_FOR_START" /\ lastOp'.over) => NoEffect
          /\ (stateRef = "WAITING_FOR_START" /\ ~lastOp'.over)
               => /\ stateRef' = "RECORDING"
                  /\ mediaRecorderRef' = NewRecorder
                  /\ Active(mediaRecorderRef', orphans')
                       = Active(mediaRecorderRef, orphans) + 1
                  /\ chunksRef' = "empty"
                  /\ history' = history
    ]_vars

\* C13: a remote call that fails with a quota error while the session is
\* active changes neither the state, nor the recorders, nor the history, sets
\* isRateLimited and leaves no timer armed with a delay below
\* ERROR_BACKOFF_MS; while a session runs in local mode isRateLimited is never
\* set.
C13_QuotaBackoff ==
  /\ []((streamOn /\ mode = "LOCAL") => ~isRateLimited)
  /\ [][(lastOp'.op = "quota-failure" /\ stateRef # "IDLE")
          => /\ NoEffect
             /\ isRateLimited'
             /\ timers' # {}
             /\ \A t \in timers' : t.delay >= ERROR_BACKOFF_MS]_vars

\* the timer the handler that just ran has armed
Scheduled == {t \in timers' : t.id = timeoutRef'}

\* C14: a remote call that fails with an error other than a quota error
\* changes neither the state, nor the recorders, nor the chunk list, nor the
\* history, and while the session is active the next tick is armed with the
\* interval of the session's mode.
C14_FailureIsNoInformation ==
  [][lastOp'.op = "failure"
       => /\ NoEffect
          /\ streamOn => /\ Scheduled # {}
                         /\ \A t \in Scheduled : t.delay = Interval(mode)]_vars

\* C15: a response that is valid JSON but lacks the fields of AnalysisResult
\* drives no change of the state, of the recorders, of the chunk list or of
\* the history.
C15_MalformedIsFailure ==
  [][(lastOp'.op \in {"result", "late-result"} /\ lastOp'.score = Undefined)
       => NoEffect]_vars

\* handlers that arm the next tick with the host visible and no quota error
PlainScheduleOps == {"granted", "tick-skipped", "tick-result", "result",
                     "late-result", "failure"}

\* C16: every tick armed in an active session, from the one startCapture arms
\* onward, with the host visible and no quota error, has the interval of the
\* session's mode as its delay: 4000 ms in remote mode, 1000 ms in local mode.
C16_DelayByMode ==
  [][(streamOn' /\ lastOp'.op \in PlainScheduleOps)
       => /\ Scheduled # {}
          /\ \A t \in Scheduled :
               t.delay = IF mode' = "GEMINI" THEN 4000 ELSE 1000]_vars

\* C17: a tick that fires in an active session while the document is hidden
\* dispatches no classification, changes neither the state, nor the
\* recorders, nor the chunk list, nor the history, and arms the next tick
\* with twice the interval of the session's mode, so that the loop goes on.
C17_HiddenDoublesDelay ==
  [][lastOp'.op = "tick-hidden"
       => /\ inflight' = inflight
          /\ NoEffect
          /\ Scheduled # {}
          /\ \A t \in Scheduled : t.delay = 2 * Interval(mode)]_vars

\* C18: when getDisplayMedia rejects, the state is IDLE afterwards, an error
\* message is set, no timer is armed or cleared, no recorder is created, no
\* stream is attached and startCapture is not run again.
C18_AcquisitionFailure ==
  [][lastOp'.op = "denied"
       => /\ stateRef' = "IDLE"
          /\ error' # "none"
          /\ timers' = timers /\ timeoutRef' = timeoutRef
          /\ mediaRecorderRef' = mediaRecorderRef /\ orphans' = orphans
          /\ inflight' = inflight
          /\ ~streamOn'
          /\ capture' = "none"]_vars

\* handlers that end a tick: the tick was skipped, or its classification
\* succeeded or failed
TickEndOps == {"tick-hidden", "tick-skipped", "tick-result", "result",
               "late-result", "quota-failure", "failure"}

\* C19: in an active session every handler that ends a tick, whether the
\* classification succeeded, failed with a quota error, failed otherwise or
\* was skipped, leaves exactly one timer armed, the stream attached and the
\* state not IDLE.
C19_TickFailuresDoNotStop ==
  [][(streamOn /\ lastOp'.op \in TickEndOps)
       => /\ Cardinality(timers') = 1
          /\ Scheduled = timers'
          /\ streamOn'
          /\ stateRef' # "IDLE"]_vars

C19_Witness ==
  /\ lastOp.op = "quota-failure"
  /\ lastOp.from = "RECORDING"
  /\ streamOn
  /\ stateRef = "RECORDING"
  /\ Cardinality(timers) = 1

\* C20: an unanswered remote call does not hold up the tick loop: whenever a
\* call dispatched by the running session is unanswered, a timer is armed, so
\* that the next tick comes without waiting for the answer.
C20_RemoteCallDoesNotBlock ==
  (streamOn /\ \E i \in 1..Len(inflight) : ~inflight[i].stale) => timers # {}

\* the modes of the closures that drive the session's ticks: the armed timers
\* and the remote calls dispatched since the last stop
TickModes ==
  {t.mode : t \in timers}
    \cup {inflight[i].mode : i \in {j \in 1..Len(inflight) : ~inflight[j].stale}}

TickModesNext ==
  {t.mode : t \in timers'}
    \cup {inflight'[i].mode : i \in {j \in 1..Len(inflight') : ~inflight'[j].stale}}

\* C21: the detection mode is fixed for the lifetime of a session: the attach
\* arms the first tick with the mode startCapture was called with, no step
\* between the attach and the stop changes the mode the ticks run with
\* (classifier choice and interval), and the mode switcher changes nothing
\* while a stream is attached.
C21_ModeFixedForSession ==
  [][/\ lastOp'.op = "granted" => TickModesNext = {capture}
     /\ (streamOn /\ streamOn') => TickModesNext = TickModes
     /\ streamOn => mode' = mode]_vars

\* a result dispatched before the stop of a remote session arrives in a
\* session started in local mode and replaces its tick by a remote one
C21_Counterexample ==
  [][~(/\ streamOn /\ lastOp'.op = "late-result"
       /\ TickModes = {"LOCAL"} /\ TickModesNext = {"GEMINI"})]_vars

\* C26: the history is newest first and only grows: every emission places
\* its record at the head of the list and leaves the earlier records, their
\* order and their contents as they were.
C26_NewestFirst ==
  [][history' # history
       => /\ Len(history') = Len(history) + 1
          /\ Tail(history') = history
          /\ \A k \in 1..Len(history) : history'[k + 1] = history[k]]_vars

\* a second record was emitted, and it differs from the first
C26_Witness ==
  /\ lastOp.op \in FinalizeOps
  /\ Len(history) = 2
  /\ history[1] # history[2]

\* C28: every record emitted while a session in local mode is active has no
\* score, status manual-review and its recorded buffer attached.
C28_LocalRecordsKept ==
  [][(history' # history /\ streamOn /\ mode = "LOCAL")
       => /\ Head(history').score = Null
          /\ Head(history').status = "manual-review"
          /\ Head(history').videoBlob # "undefined"]_vars

\* C29: at most one analysis timer is armed in every reachable state.
C29_OneTimer == Cardinality(timers) <= 1

\* the result of a stopped session arrives while the next session has its
\* tick armed: the tick is replaced, not joined
C29_Witness ==
  /\ lastOp.op = "late-result"
  /\ streamOn
  /\ Cardinality(timers) = 1

\* the first column of the scan strip
StripStart == Max(0, CANVAS_WIDTH \div 2 - SCAN_WIDTH \div 2)

\* the rows among lo .. hi that a stripe of a colour the cue's test accepts
\* fills over more than 40% of the strip, from the geometry of the three
\* stripes
CueRows(f, cue, lo, hi) ==
  LET Rows(s) ==
        IF /\ Matches(s.colour, cue)
           /\ OverThreshold(Overlap(s.left, s.width, StripStart, SCAN_WIDTH))
        THEN Overlap(s.top, s.rows, lo, hi - lo + 1)
        ELSE 0
  IN Rows(f.stripes[1]) + Rows(f.stripes[2]) + Rows(f.stripes[3])

\* ribbon-blue rows in the top 40% of the strip
RibbonRows(f) ==
  CueRows(f, "blue", 0, (40 * CANVAS_HEIGHT - 1) \div 100)

\* button-green rows between 30% and 70%
ButtonRows(f) ==
  CueRows(f, "green",
          (30 * CANVAS_HEIGHT) \div 100 + 1, (70 * CANVAS_HEIGHT - 1) \div 100)

\* white rows between 50% and 85%
UrlBoxRows(f) ==
  CueRows(f, "white",
          (50 * CANVAS_HEIGHT) \div 100 + 1, (85 * CANVAS_HEIGHT - 1) \div 100)

\* C22: on every readable frame analyzeGameFrameLocally returns isGameOver =
\* hasRibbon AND (hasButton OR hasUrlBox): false whenever the strip has no
\* ribbon-blue row, true whenever the ribbon rows and the green or the white
\* rows exceed 2% of the height.
C22_Decision ==
  (localCalls > 0 /\ frame.pixelAccess = "ok")
    => /\ localResult.isGameOver
            = (/\ EnoughRows(RibbonRows(frame), CANVAS_HEIGHT)
               /\ \/ EnoughRows(ButtonRows(frame), CANVAS_HEIGHT)
                  \/ EnoughRows(UrlBoxRows(frame), CANVAS_HEIGHT))
       /\ RibbonRows(frame) = 0 => ~localResult.isGameOver

\* game over reported on a frame with the ribbon and the white box only
C22_Witness ==
  /\ localCalls > 0
  /\ frame.pixelAccess = "ok"
  /\ localResult.isGameOver
  /\ EnoughRows(RibbonRows(frame), CANVAS_HEIGHT)
  /\ ButtonRows(frame) = 0
  /\ EnoughRows(UrlBoxRows(frame), CANVAS_HEIGHT)

\* C23: every result of analyzeGameFrameLocally, on the normal path and on
\* the failure path, has score null and confidence 1 exactly when isGameOver
\* is true and 0 exactly when it is false.
C23_ScoreAndConfidence ==
  localCalls > 0
    => /\ localResult.score = Null
       /\ localResult.confidence \in {0, 1}
       /\ localResult.confidence = 1 <=> localResult.isGameOver

C23_Witness ==
  /\ localCalls > 0
  /\ frame.pixelAccess = "ok"
  /\ localResult.isGameOver
  /\ localResult.confidence = 1

C27_ReadmeThreshold ==
  \A k \in 1..Len(history) :
    history[k].score >= 0
      => /\ history[k].score < 45
              => /\ history[k].status = "discarded"
                 /\ history[k].videoBlob = "undefined"
         /\ history[k].score >= 45
              => /\ history[k].status = "saved"
                 /\ history[k].videoBlob # "undefined"

\* a result that makes handleGameOver close a recorder that is not recording
RedundantClose ==
  /\ lastOp'.op \in ResultOps
  /\ lastOp'.over
  /\ lastOp'.from = "RECORDING"
  /\ IsInactive(Ctl)

\* C30: startMediaRecorder while a recorder records keeps the recorder and
\* the chunk list; stopMediaRecorder without a recording recorder resolves at
\* once with an empty buffer; after every close the chunk list is empty.
C30_RedundantCalls ==
  [][/\ (/\ lastOp'.op \in ResultOps
         /\ ~lastOp'.over
         /\ lastOp'.from \in {"MONITORING", "WAITING_FOR_START"}
         /\ IsRecording(Ctl))
          => /\ mediaRecorderRef' = mediaRecorderRef
             /\ orphans' = orphans
             /\ chunksRef' = chunksRef
     /\ RedundantClose
          => /\ Len(history') = Len(history) + 1
             /\ Head(history').videoBlob \in {"empty", "undefined"}
             /\ PendingNext = Pending
             /\ stateRef' = "WAITING_FOR_START"
     /\ (RedundantClose \/ lastOp'.op \in FinalizeOps)
          => chunksRef' = "empty"]_vars

\* C34: the recorder and the state agree in every reachable state: a
\* MediaRecorder is recording if and only if the state is RECORDING.
C34_RecorderMatchesState ==
  (stateRef = "RECORDING") <=> (Active(mediaRecorderRef, orphans) > 0)

\* C35: the rate-limited indicator is false in every reachable state whose
\* state is IDLE, also after a call in flight at the stop fails with a quota
\* error.
C35_RateLimitedEndsWithSession == stateRef = "IDLE" => ~isRateLimited

\* the rows a frame's stripes give cue: those among lo .. hi that a stripe of
\* a colour the cue's test accepts fills in at least 9 pixels of the strip
ExpectedRows(f, cue, lo, hi) ==
  LET Rows(s) ==
        IF /\ Matches(s.colour, cue)
           /\ Overlap(s.left, s.width, StripStart, SCAN_WIDTH) >= 9
        THEN Overlap(s.top, s.rows, lo, hi - lo + 1)
        ELSE 0
  IN Rows(f.stripes[1]) + Rows(f.stripes[2]) + Rows(f.stripes[3])

\* C31: a row is tallied as blue only if more than 40% of the strip (at least
\* 9 of 20 pixels) matches the ribbon blue and y / height < 0.40, as green
\* only with more than 40% button green and 0.30 < y / height < 0.70, as white
\* only with more than 40% near-white and 0.50 < y / height < 0.85; each cue
\* is present exactly when its tally is strictly above 2% of the height.
C31_RowTallies ==
  (localCalls > 0 /\ frame.pixelAccess = "ok")
    => LET blueRows == RowTally(frame, CANVAS_WIDTH, CANVAS_HEIGHT, "blue")
           greenRows == RowTally(frame, CANVAS_WIDTH, CANVAS_HEIGHT, "green")
           whiteRows == RowTally(frame, CANVAS_WIDTH, CANVAS_HEIGHT, "white")
       IN /\ blueRows = ExpectedRows(frame, "blue", 0, 143)
          /\ greenRows = ExpectedRows(frame, "green", 109, 251)
          /\ whiteRows = ExpectedRows(frame, "white", 181, 305)
          /\ EnoughRows(blueRows, CANVAS_HEIGHT) <=> blueRows * 50 > 360
          /\ EnoughRows(greenRows, CANVAS_HEIGHT) <=> greenRows * 50 > 360
          /\ EnoughRows(whiteRows, CANVAS_HEIGHT) <=> whiteRows * 50 > 360
          /\ localResult.isGameOver
               <=> /\ blueRows * 50 > 360
                   /\ greenRows * 50 > 360 \/ whiteRows * 50 > 360

\* a frame whose ribbon covers exactly 40% of the strip and whose green and
\* white stripes cross the lower edges of their bands
C31_Witness ==
  /\ localCalls > 0
  /\ frame.pixelAccess = "ok"
  /\ frame.stripes[1].left = 322
  /\ frame.stripes[2].top = 102
  /\ frame.stripes[3].top = 174
  /\ RowTally(frame, CANVAS_WIDTH, CANVAS_HEIGHT, "blue") = 0
  /\ RowTally(frame, CANVAS_WIDTH, CANVAS_HEIGHT, "green") = 1
  /\ RowTally(frame, CANVAS_WIDTH, CANVAS_HEIGHT, "white") = 1

\* C32: in the single-mode Recorder a game over pauses the analysis: every
\* recording is finalized at most once and yields at most one record, and
\* once the 5 s cooldown of a game over has fired in the session that detected
\* it, the recorder records and the analysis interval runs again.
C32_GameOverOnceThenResume ==
  /\ \A r \in 1..Len(recorders) :
       recorders[r].finalized <= 1 /\ recorders[r].yielded <= 1
  /\ lastOp.op = "cooldown-live"
       => /\ IsRecordingSingle(RecCtl)
          /\ \E iv \in intervals : iv.id = intervalRef

\* C33: no two records of the history share an id.
C33_UniqueIds ==
  \A i, j \in 1..Len(history) : i # j => history[i].id # history[j].id

====
